---------------------------- MODULE Spec2Model ----------------------------
(***************************************************************************)
(* Back-transformation of planar G-code onto a cone (RotBotSlicer).        *)
(*                                                                         *)
(* One pass of a driver over a stream of G-code rows:                      *)
(*   backtransform_data_radial / _tangential / _mixed                      *)
(*       (Backtransformation_GCode.py, fixed 45 degree cone), and          *)
(*   backtransform_data_radial (Backtransformation_GCode_var_angle.py).    *)
(*                                                                         *)
(* Numbers.  The code computes in floating point; here every quantity is   *)
(* an integer in the precision the code emits it with:                     *)
(*   lengths and positions   1/1000 mm   (round(.., 3) of X, Y, Z)         *)
(*   extrusion amounts       1/1000000   (round(.., 6) of E)               *)
(*   angles in radian        1/10000000 rad                                *)
(*   rotary values U         1/100 degree (np.round(.., 2))                *)
(* Intermediate values are rounded to the same grids, so an emitted        *)
(* position agrees with the code's within one unit and an extrusion amount *)
(* within about 1/10000.                                                   *)
(* A row is a record of its fields; an absent field is the empty sequence, *)
(* a present one the sequence of its value.                                *)
(***************************************************************************)
EXTENDS Integers, Sequences, FiniteSets, TLC

(***************************************************************************)
(* Arithmetic                                                              *)
(***************************************************************************)
Abs(a) == IF a < 0 THEN 0 - a ELSE a

Max2(a, b) == IF a >= b THEN a ELSE b

Min2(a, b) == IF a <= b THEN a ELSE b

\* a / b rounded to the nearest integer (b > 0)
RoundDiv(a, b) ==
  IF a >= 0 THEN (2 * a + b) \div (2 * b)
            ELSE 0 - ((2 * (0 - a) + b) \div (2 * b))

\* a * b / c rounded to the nearest integer (b >= 0, c > 0), computed so that
\* no intermediate product leaves the 32 bit range
MulDivR(a, b, c) ==
  LET m == Abs(a)
      q == m \div c
      r == m % c
      v == q * b + (2 * r * b + c) \div (2 * c)
  IN  IF a < 0 THEN 0 - v ELSE v

RECURSIVE NewtonSqrt(_, _)
NewtonSqrt(n, g) ==
  LET h == (g + n \div g) \div 2
  IN  IF h >= g THEN g ELSE NewtonSqrt(n, h)

\* square root of n rounded to the nearest integer; g0 >= sqrt(n) starts Newton
SqrtR(n, g0) ==
  IF n = 0 THEN 0
  ELSE LET s == NewtonSqrt(n, g0)
       IN  IF n - s * s > s THEN s + 1 ELSE s

\* np.linalg.norm([a, b]) and np.sqrt(a ** 2 + b ** 2)
Norm2(a, b) == SqrtR(a * a + b * b, Abs(a) + Abs(b))

\* np.linalg.norm([a, b, c])
Norm3(a, b, c) == SqrtR(a * a + b * b + c * c, Abs(a) + Abs(b) + Abs(c))

RECURSIVE SeqMax(_)
SeqMax(s) ==
  IF Len(s) = 1 THEN s[1] ELSE Max2(s[1], SeqMax(Tail(s)))

\* np.linspace(a, b, n + 1)[k], k = 0 .. n
Linspace(a, b, n, k) == a + RoundDiv(k * (b - a), n)

(***************************************************************************)
(* Angles                                                                  *)
(***************************************************************************)
\* np.pi in 1/10000000 rad
Pi == 31415927

\* k * 2 * np.pi in 1/10000000 rad, k >= 0
KTwoPi(k) == k * 62831853 + RoundDiv(k * 7, 100)

\* np.around(a, 4) of an angle in 1/10000000 rad
Around4(a) == 1000 * RoundDiv(a, 1000)

\* np.round(a * 360 / (2 * np.pi), 2): 1/10000000 rad to 1/100 degree
DegOfRad(a) == MulDivR(RoundDiv(a, 10), 1017, 177500)

\* u * 2 * np.pi / 360: 1/100 degree to 1/10000000 rad
\* (pi / 18000 * 10000000 = 1745.329252)
RadOfDeg(u) == u * 1745 + MulDivR(u, 3292, 10000) + RoundDiv(u * 52, 1000000)

\* arctan of |y| / |x| in the first quadrant, for the directions of the grid
ArcTanAbs(y, x) ==
  CASE y = 0 -> 0
    [] x = 0 -> 15707963
    [] x = y -> 7853982
    [] x = 2 * y -> 4636476
    [] y = 2 * x -> 11071487

\* np.arctan2(y, x)
ArcTan2(y, x) ==
  IF x = 0 /\ y = 0 THEN 0
  ELSE LET a == ArcTanAbs(Abs(y), Abs(x))
       IN  IF x >= 0 THEN (IF y >= 0 THEN a ELSE 0 - a)
           ELSE (IF y >= 0 THEN Pi - a ELSE a - Pi)

(***************************************************************************)
(* Rows                                                                    *)
(***************************************************************************)
\* One line of G-code.  g is the leading word ("G0", "G1", or another
\* command; ";" for a comment), txt the text that is not a field.
Line(g, txt, x, y, z, e, u) ==
  [g |-> g, txt |-> txt, x |-> x, y |-> y, z |-> z, e |-> e, u |-> u]

None == << >>

Has(f) == f # << >>

\* grid coordinate (1/1000 mm) of the positions the rows command
Coord == 10000

\* layer heights (1/1000 mm) the rows command
ZLow == 2000

ZHigh == 5000

\* extrusion amount (1/1000000) of a depositing row
EAmount == 1000000

Comment(txt) == Line(";", txt, None, None, None, None, None)

\* a move to (x, y); e is None for a travel move
MoveXY(g, x, y, e) == Line(g, "", <<x>>, <<y>>, None, e, None)

\* a change of the layer height
MoveZ(g, z, e) == Line(g, "", None, None, <<z>>, e, None)

\* a retraction: a G1 row with neither X, Y nor Z
Retraction == Line("G1", "F1800", None, None, None, <<0 - EAmount>>, None)

\* Streams come from two families.  A planar stream moves between three
\* points around the axis of the cone on one layer (the head can turn any
\* number of times); a layered stream changes the layer height and moves
\* along one radius.
Feeds == {"planar", "layered"}

PlanarPoints == {<<Coord, 0>>, <<0, Coord>>, <<0 - Coord, 0>>}

PlanarRows ==
  {MoveXY("G1", p[1], p[2], <<EAmount>>) : p \in PlanarPoints}
  \cup {MoveXY("G0", Coord, 0, None), MoveXY("G1", 0, Coord, None)}
  \cup {Comment("; feature outer perimeter"), Retraction}

LayeredRows ==
  {MoveZ("G1", ZLow, <<EAmount>>), MoveZ("G1", ZHigh, None), MoveZ("G0", 0, None),
   MoveXY("G1", Coord, 0, <<EAmount>>), MoveXY("G1", Coord, 0, None),
   MoveXY("G0", 0, 0, None),
   Line("G1", "", <<0>>, None, None, <<EAmount>>, None),
   Line("G1", "", None, <<0>>, None, None, None),
   Comment("; feature outer perimeter"), Comment("; feature infill"),
   Line("M106", "S255", None, None, None, None, None), Retraction}

RowsOf(f) == IF f = "planar" THEN PlanarRows ELSE LayeredRows

(***************************************************************************)
(* State of one pass                                                       *)
(***************************************************************************)
VARIABLES
  feed,           \* the family the rows of the stream are drawn from
  driver,         \* which backtransform_data_* function runs
  cone_type,      \* its cone_type argument
  status,         \* "setup", "running", or the exception that ended the pass
  x_old, y_old,   \* running position
  x_new, y_new,   \* last commanded position
  z_layer,        \* current layer height
  angle_old,      \* continuous angle carried to the next move (1e-7 rad)
  z_max,          \* highest Z deposited at
  update_x, update_y,
  visible_print,  \* region flag of the mixed driver
  row,            \* the row processed last
  entry,          \* the lines appended to new_data for it
  appended,       \* number of entries the last step appended to new_data
  move,           \* locals of the last transformed move
  dep_hi,         \* history: highest Z of any sub-point deposited at so far
  point,          \* transformation_cone / _kegel: the mesh point mapped last
  point_transformed,  \* ... and what it was mapped to
  data,           \* translate_data: its argument, a list of rows
  scanned,        \* ... rows the first loop has looked at
  z_initialized, z_min, z_translate,
  new_data,       \* ... the list it builds
  angle_arg,      \* compute_U_values called alone: its argument
  u_values        \* ... and what it returned

\* the locals of the back-transformation drivers
pass_vars == <<x_old, y_old, x_new, y_new, z_layer, angle_old, z_max, update_x,
               update_y, visible_print, row, entry, appended, move, dep_hi>>

mesh_vars == <<point, point_transformed>>

translate_vars == <<data, scanned, z_initialized, z_min, z_translate, new_data>>

unwrap_vars == <<angle_arg, u_values>>

vars == <<feed, driver, cone_type, status, pass_vars, mesh_vars, translate_vars,
          unwrap_vars>>

\* The functions a run can be of: the drivers of the back-transformation ...
Drivers == {"radial", "tangential", "mixed", "var_angle"}

\* ... the cone transformations of the mesh (Transformation_STL.py,
\* Transformation_STL_var_angle.py) ...
Transformations == {"transformation_cone", "transformation_kegel"}

\* ... translate_data of either G-code file, and compute_U_values alone
Translations == {"translate_data", "translate_data_var_angle"}

Programs == Drivers \cup Transformations \cup Translations \cup {"compute_U_values"}

ConeTypes == {"outward", "inward", "sideways"}

\* maximal_length argument (1/1000 mm)
maximal_length == 5000

\* the sign the cone transformation of the mesh uses for the same cone type
ConeSignOfMesh == IF cone_type = "outward" THEN 1 ELSE 0 - 1

\* c of the back-transformation
ConeSign == IF cone_type = "outward" THEN 0 - 1 ELSE 1

inward_cone == cone_type = "inward"

\* The locals of the last transformed move (num_segm = 0: the last row was no
\* completed move).  x_from, y_from, z_max_in: x_old, y_old, z_max before it.
NoMoveFrom(x, y, zm) ==
  [num_segm |-> 0, dist_transformed |-> 0, x_from |-> x, y_from |-> y,
   x_vals |-> << >>, y_vals |-> << >>, z_vals |-> << >>, z_mapped |-> << >>,
   z_max_in |-> zm, angle_vals |-> << >>, u_vals |-> << >>, has_e |-> FALSE]

NoMove == NoMoveFrom(0, 0, 0)

NoRow == Line("", "", None, None, None, None, None)

(***************************************************************************)
(* Helpers of Backtransformation_GCode.py                                  *)
(***************************************************************************)
\* insert_Z: insert or replace the Z field, rounded to 3 decimals
insert_Z(r, z_value) == [r EXCEPT !.z = <<z_value>>]

\* replace_E without its dist_old == 0 branch taking effect: the amount of a
\* move of length 0 is left as it was
replace_E_unguarded(r, dist_old, dist_new, cn, cd) ==
  IF ~Has(r.e) \/ dist_old = 0 THEN r
  ELSE [r EXCEPT !.e = <<MulDivR(r.e[1], dist_new * cn, dist_old * cd)>>]

\* replace_E: E * dist_new * corr / dist_old with corr = cn / cd, rounded to
\* 6 decimals; 0 when dist_old = 0; the row itself when it has no E
replace_E(r, dist_old, dist_new, cn, cd) ==
  IF ~Has(r.e) THEN r
  ELSE IF dist_old = 0 THEN [r EXCEPT !.e = <<0>>]
  ELSE [r EXCEPT !.e = <<MulDivR(r.e[1], dist_new * cn, dist_old * cd)>>]

\* insert_U: insert or replace the U field
insert_U(r, angle) == [r EXCEPT !.u = <<angle>>]

\* re.sub(pattern_X, ..) / re.sub(pattern_Y, ..) / re.sub(pattern_Z, ..):
\* a field is rewritten only where the row has one
SubXYZ(r, x, y, z) ==
  [r EXCEPT !.x = IF Has(r.x) THEN <<x>> ELSE r.x,
            !.y = IF Has(r.y) THEN <<y>> ELSE r.y,
            !.z = IF Has(r.z) THEN <<z>> ELSE r.z]

\* compute_angle_radial(x_new, y_new, inward_cone)
compute_angle_radial(xn, yn, inward) ==
  ArcTan2(yn, xn) + (IF inward THEN Pi ELSE 0)

\* the angle of compute_angle_tangential before pi is added
TangentialAngle(xo, yo, xn, yn) ==
  LET n1 == 0 - (yn - yo)
      n2 == xn - xo
      len_normal == Norm2(n1, n2)
      len_point == Norm2(xn, yn)
      dot == n1 * xn + n2 * yn
  IN  IF len_normal = 0 \/ len_point = 0 THEN ArcTan2(yn, xn)
      \* np.isclose(inner_prod, 0, atol=0.01)
      ELSE IF Abs(dot) <= (len_normal * len_point) \div 100 THEN ArcTan2(n2, n1)
      \* printhead_direction = inner_prod * len_point / len_normal * normal
      ELSE IF dot > 0 THEN ArcTan2(n2, n1)
      ELSE ArcTan2(0 - n2, 0 - n1)

\* compute_angle_tangential(x_old, y_old, x_new, y_new, inward_cone)
compute_angle_tangential(xo, yo, xn, yn, inward) ==
  TangentialAngle(xo, yo, xn, yn) + (IF inward THEN Pi ELSE 0)

\* compute_angle_mixed(x_old, y_old, x_new, y_new, inward_cone, visible_print)
compute_angle_mixed(xo, yo, xn, yn, inward, visible) ==
  (IF ~visible THEN ArcTan2(yn, xn) ELSE TangentialAngle(xo, yo, xn, yn))
  + (IF inward THEN Pi ELSE 0)

\* the turns compute_U_values searches: range(-10, 11)
MaxTurns == 10

\* angle_candidates[i, k]: np.around(angle + k * 2 * np.pi, 4)
Candidate(raw, k) ==
  Around4(raw + (IF k >= 0 THEN KTwoPi(k) ELSE 0 - KTwoPi(0 - k)))

\* the candidates of one angle, k = -10 .. 10 in this order
Candidates(raw) ==
  [i \in 1..(2 * MaxTurns + 1) |-> Candidate(raw, i - 1 - MaxTurns)] \o << >>

\* the index of the candidate with k = 0, the raw angle itself
ArgMinNoTurn(d) == (Len(d) + 1) \div 2

\* np.argmin(d): the first index of the least element
ArgMin(d) ==
  CHOOSE i \in 1..Len(d) :
    \A j \in 1..Len(d) : d[i] < d[j] \/ (d[i] = d[j] /\ i <= j)

\* np.absolute(angle_candidates[i] - angle_prev)
Distances(cands, angle_prev) ==
  [i \in 1..Len(cands) |-> Abs(cands[i] - angle_prev)] \o << >>

\* angle_candidates[i, np.argmin(np.absolute(angle_candidates[i] - angle_prev))]
Pick(cands, angle_prev) == cands[ArgMin(Distances(cands, angle_prev))]

Closest(raw, angle_prev) == Pick(Candidates(raw), angle_prev)

\* angle_insert of compute_U_values: ins holds its first i - 1 elements
RECURSIVE AngleInsert(_, _, _)
AngleInsert(angle_array, ins, i) ==
  IF i > Len(angle_array) THEN ins
  ELSE AngleInsert(angle_array,
                   Append(ins, Closest(angle_array[i], ins[i - 1])), i + 1)

\* angle_insert in 1/100 degree
Degrees(ins) == [i \in 1..Len(ins) |-> DegOfRad(ins[i])] \o << >>

\* compute_U_values(angle_array): U values in 1/100 degree
compute_U_values(angle_array) ==
  Degrees(AngleInsert(angle_array, <<angle_array[1]>>, 2))

\* the back-transformed coordinate of the fixed cone: v / np.sqrt(2)
Bt45(v) == MulDivR(v, 5741, 8119)

\* the retract, rotation and re-extrude lines of a step above 30 degree
RetractLine == Line("G1", "", None, None, None, <<0 - 800000>>, None)

RotateLine(u) == Line("G1", "", None, None, None, None, <<u>>)

ReextrudeLine == Line("G1", "", None, None, None, <<800000>>, None)

\* 'G92 U' + str(angle_reset)
ResetLine(u) == Line("G92", "", None, None, None, None, <<u>>)

\* the step of the rotary axis (1/100 degree) a move line may carry
UStepLimit == 3000

\* the magnitude of U (1/100 degree) above which the axis is reset
UResetLimit == 360000

\* the safety height (1/1000 mm) of a travel move above z_max
SafetyHeight == 1000


(***************************************************************************)
(* One transformed move: the part the four drivers share                   *)
(***************************************************************************)
IsVar ==
  driver \in {"var_angle", "transformation_kegel", "translate_data_var_angle"}

\* x / np.sqrt(2) (fixed cone), x * np.cos(cone_angle_rad) (variable angle,
\* CONE_ANGLE = 16: cos = 25782 / 26821)
Scale(v) == IF IsVar THEN MulDivR(v, 25782, 26821) ELSE Bt45(v)

\* a cone height that is the radius whatever the angle of the cone
ConeHeightOfRadius(rad) == rad

\* the height of the cone over a point at radius rad: rad (fixed cone),
\* rad * np.tan(cone_angle_rad) (variable angle: tan = 9058 / 31589)
ConeHeight(rad) == IF IsVar THEN MulDivR(rad, 9058, 31589) ELSE rad

\* z_layer + c * np.sqrt(x ** 2 + y ** 2) [* np.tan(cone_angle_rad)]
MappedZ(zl, x, y) == zl + ConeSign * ConeHeight(Norm2(x, y))

\* z_max after a move whose highest sub-point is top: a depositing move
\* records top when it is higher, or when z_max is still 0
NewZMax(has_e, top, zm) ==
  IF has_e /\ (top > zm \/ zm = 0) THEN top ELSE zm

\* a cut at z_max + 1 for every move that reaches above the z_max it found
ClampZAnyMove(has_e, zs, top, zm) ==
  IF top > z_max
  THEN [k \in 1..Len(zs) |-> Min2(zs[k], z_max + SafetyHeight)] \o << >>
  ELSE zs

\* np.minimum(z_vals, z_max + 1, z_vals) for a travel move that reaches
\* above z_max
ClampZ(has_e, zs, top, zm) ==
  IF ~has_e /\ top > zm
  THEN [k \in 1..Len(zs) |-> Min2(zs[k], zm + SafetyHeight)] \o << >>
  ELSE zs

\* a count that rounds dist_transformed / maximal_length instead of flooring
NumSegmRounded(dist) == RoundDiv(dist, maximal_length) + 1

\* the number of sub-segments: int(dist_transformed // maximal_length + 1)
NumSegm(dist) == dist \div maximal_length + 1

\* sub-points that stay at the start until the last one
LinspaceSeqUndivided(a, b, n) ==
  [k \in 1..(n + 1) |-> IF k = n + 1 THEN b ELSE a] \o << >>

\* np.linspace(a, b, n + 1)
LinspaceSeq(a, b, n) ==
  [k \in 1..(n + 1) |-> Linspace(a, b, n, k - 1)] \o << >>

\* the fields of the row and the flags they set
Parsed(r) ==
  [z_layer |-> IF Has(r.z) THEN r.z[1] ELSE z_layer,
   x_new |-> IF Has(r.x) THEN r.x[1] ELSE x_new,
   y_new |-> IF Has(r.y) THEN r.y[1] ELSE y_new,
   update_x |-> update_x \/ Has(r.x),
   update_y |-> update_y \/ Has(r.y),
   has_e |-> Has(r.e)]

\* the cone heights of the sub-points
ConeZ(zl, xs, ys) ==
  [k \in 1..Len(xs) |-> MappedZ(zl, xs[k], ys[k])] \o << >>

\* distances_bt
DistancesBt(xs, ys, zs) ==
  [j \in 1..(Len(xs) - 1) |->
     Norm3(xs[j + 1] - xs[j], ys[j + 1] - ys[j], zs[j + 1] - zs[j])] \o << >>

\* z_max and z_vals: a travel move of the inward cone that changes X or Y
\* runs on a straight line; every other move follows the cone, records its
\* top (depositing) or is cut at z_max + 1 (travel)
GeoZ(p, n, xs, ys, zc, top) ==
  LET straight == inward_cone /\ ~p.has_e /\ (p.update_x \/ p.update_y)
  IN  IF straight
      THEN [z_max |-> z_max,
            z_vals |-> LinspaceSeq(zc[1], zc[n + 1], n)]
      ELSE [z_max |-> NewZMax(p.has_e, top, z_max),
            z_vals |-> ClampZ(p.has_e, zc, top, NewZMax(p.has_e, top, z_max))]

GeoRecord(p, xob, yob, xnb, ynb, dist, n, xs, ys, zc, zz) ==
  [z_layer |-> p.z_layer, x_new |-> p.x_new, y_new |-> p.y_new,
   update_x |-> p.update_x, update_y |-> p.update_y, has_e |-> p.has_e,
   x_old_bt |-> xob, y_old_bt |-> yob, x_new_bt |-> xnb, y_new_bt |-> ynb,
   dist_transformed |-> dist, num_segm |-> n, x_vals |-> xs, y_vals |-> ys,
   z_mapped |-> zc, z_max |-> zz.z_max, z_vals |-> zz.z_vals,
   dist_sub |-> RoundDiv(dist, n),
   distances_bt |-> DistancesBt(xs, ys, zz.z_vals)]

GeoHeights(p, xob, yob, xnb, ynb, dist, n, xs, ys, zc) ==
  GeoRecord(p, xob, yob, xnb, ynb, dist, n, xs, ys, zc,
            GeoZ(p, n, xs, ys, zc, SeqMax(zc)))

GeoPoints(p, xob, yob, xnb, ynb, dist, n, xs, ys) ==
  GeoHeights(p, xob, yob, xnb, ynb, dist, n, xs, ys, ConeZ(p.z_layer, xs, ys))

GeoSegments(p, xob, yob, xnb, ynb, dist, n) ==
  GeoPoints(p, xob, yob, xnb, ynb, dist, n,
            LinspaceSeq(xob, xnb, n), LinspaceSeq(yob, ynb, n))

GeoScaled(p, xob, yob, xnb, ynb, dist) ==
  GeoSegments(p, xob, yob, xnb, ynb, dist, NumSegm(dist))

GeoParsed(p) ==
  GeoScaled(p, Scale(x_old), Scale(y_old), Scale(p.x_new), Scale(p.y_new),
            Norm2(p.x_new - x_old, p.y_new - y_old))

\* The values one row r with an X, Y or Z field yields, up to the distances.
Geometry(r) == GeoParsed(Parsed(r))

\* a first replace_E that leaves the whole amount on every sub-segment
BaseRowUndivided(r, geo) ==
  replace_E(insert_Z(r, geo.z_vals[1]), 1, 1, 5741, 8119)

\* row after insert_Z and the first replace_E (fixed cone: corr = 1/sqrt(2))
BaseRow(r, geo) ==
  replace_E(insert_Z(r, geo.z_vals[1]), geo.num_segm, 1, 5741, 8119)

\* the move line of sub-segment j, before its U value
SingleRow(base, geo, j) ==
  replace_E(SubXYZ(base, geo.x_vals[j + 1], geo.y_vals[j + 1], geo.z_vals[j + 1]),
            geo.dist_sub, geo.distances_bt[j], 1, 1)

\* rows of one sub-segment that carry every rotary value on the move line
RowsAfterUnconditional(single_row, u_prev, u_next) ==
  <<insert_U(single_row, u_next)>>

\* the rows of one sub-segment in the tangential and the mixed driver: the
\* rotation lines follow the move line
RowsAfter(single_row, u_prev, u_next) ==
  IF Abs(u_next - u_prev) <= UStepLimit
  THEN <<insert_U(single_row, u_next)>>
  ELSE <<single_row, RetractLine, RotateLine(u_next), ReextrudeLine>>

\* the rows of one sub-segment in the radial driver: the rotation lines come
\* before the move line
RowsBefore(single_row, u_prev, u_next) ==
  IF Abs(u_next - u_prev) <= UStepLimit
  THEN <<insert_U(single_row, u_next)>>
  ELSE <<RetractLine, RotateLine(u_next), ReextrudeLine, single_row>>

RECURSIVE ReplacementRows(_, _, _, _)
\* replacement_rows after sub-segments 1 .. j (tangential, mixed)
ReplacementRows(base, geo, u_vals, j) ==
  IF j = 0 THEN << >>
  ELSE ReplacementRows(base, geo, u_vals, j - 1)
         \o RowsAfter(SingleRow(base, geo, j), u_vals[j], u_vals[j + 1])

\* a test that never finds the axis out of range
NeedsResetNever(u_vals) == FALSE

\* np.amax(np.absolute(u_vals)) > 3600
NeedsReset(u_vals) ==
  \E i \in 1..Len(u_vals) : Abs(u_vals[i]) > UResetLimit

\* a G92 line appended twice
ResetRowsTwice(angle_vals, u_vals) ==
  IF NeedsReset(u_vals)
  THEN <<ResetLine(DegOfRad(angle_vals[Len(angle_vals)])),
         ResetLine(DegOfRad(angle_vals[Len(angle_vals)]))>>
  ELSE << >>

\* the G92 line appended after the sub-segments, if any
ResetRows(angle_vals, u_vals) ==
  IF NeedsReset(u_vals)
  THEN <<ResetLine(DegOfRad(angle_vals[Len(angle_vals)]))>>
  ELSE << >>

\* a carried angle that is never set back to the raw angle
CarriedAngleNoRebase(angle_new, u_vals) == RadOfDeg(u_vals[Len(u_vals)])

\* angle_old after the move
CarriedAngle(angle_new, u_vals) ==
  IF NeedsReset(u_vals) THEN angle_new ELSE RadOfDeg(u_vals[Len(u_vals)])

\* a test that transforms every G0 / G1 row, with or without X, Y, Z
TransformedAnyMove(r) ==
  IF IsVar THEN r.g = "G1" ELSE r.g \in {"G0", "G1"}

\* pattern_G: r'\AG[01] ' (fixed cone), r'\AG[1] ' (variable angle)
IsMoveRow(r) ==
  IF IsVar THEN r.g = "G1" ELSE r.g \in {"G0", "G1"}

Transformed(r) == IsMoveRow(r) /\ (Has(r.x) \/ Has(r.y) \/ Has(r.z))

\* history: the highest Z deposited at, through this move
NewDepHi(geo) ==
  IF ~geo.has_e THEN dep_hi
  ELSE IF dep_hi = None THEN <<SeqMax(geo.z_vals)>>
  ELSE <<Max2(dep_hi[1], SeqMax(geo.z_vals))>>

MoveRecord(geo, angle_vals, u_vals) ==
  [num_segm |-> geo.num_segm, dist_transformed |-> geo.dist_transformed,
   x_from |-> x_old, y_from |-> y_old,
   x_vals |-> geo.x_vals, y_vals |-> geo.y_vals, z_vals |-> geo.z_vals,
   z_mapped |-> geo.z_mapped, z_max_in |-> z_max, angle_vals |-> angle_vals,
   u_vals |-> u_vals, has_e |-> geo.has_e]

\* [angle_old] + [angle_new for k in range(0, num_segm)]
AngleVals(angle_new, n) == <<angle_old>> \o [k \in 1..n |-> angle_new]

(***************************************************************************)
(* The pass                                                                *)
(***************************************************************************)
\* longest list translate_data is called with
MaxRows == 3

\* rows of a back-transformed stream: depositing lines on the cone, travel
\* lines below them, a comment and a retraction
TranslateRows ==
  {Line("G1", "", <<Coord>>, <<0>>, <<0 - ZHigh>>, <<EAmount>>, None),
   Line("G1", "", <<0>>, <<Coord>>, <<ZLow>>, <<EAmount>>, None),
   Line("G1", "", None, None, <<0 - Coord>>, None, None),
   Line("G0", "", <<Coord>>, <<Coord>>, <<0 - Coord>>, None, None),
   Comment("; feature outer perimeter"), Retraction}

SeqsOf(S, n) == UNION {[1..k -> S] : k \in 0..n}

Streams == SeqsOf(TranslateRows, MaxRows)

\* angles compute_U_values is called with, in 1/100 degree: raw angles of
\* both cone types, after a first element that may be a carried angle of
\* several turns
RawDegrees == {0, 9000, 0 - 9000, 17000, 0 - 17000, 18000, 27000}

CarriedDegrees == RawDegrees \cup {0 - 351000, 370000}

AngleArrays ==
  {<<RadOfDeg(c)>> \o [i \in DOMAIN t |-> RadOfDeg(t[i])] :
     c \in CarriedDegrees, t \in [1..1 -> RawDegrees] \cup [1..2 -> RawDegrees]}

\* the state when a function is entered
Init ==
  /\ driver \in Programs
  /\ feed \in (IF driver \in Drivers THEN Feeds ELSE {"planar"})
  /\ cone_type \in (IF driver \in Drivers \cup Transformations THEN ConeTypes
                    ELSE {"outward"})
  /\ status = (IF driver \in Drivers \cup Transformations THEN "setup"
               ELSE "running")
  /\ x_old = 0 /\ y_old = 0
  /\ x_new = 0 /\ y_new = 0
  /\ z_layer = 0
  /\ angle_old = 0
  /\ z_max = 0
  /\ update_x = FALSE /\ update_y = FALSE
  /\ visible_print = FALSE
  /\ row = NoRow
  /\ entry = << >>
  /\ appended = 0
  /\ move = NoMove
  /\ dep_hi = None
  /\ point = None
  /\ point_transformed = None
  /\ data \in (IF driver \in Translations THEN Streams ELSE {<< >>})
  /\ scanned = 0
  /\ z_initialized = FALSE
  /\ z_min = None
  /\ z_translate = None
  /\ new_data = << >>
  /\ angle_arg \in (IF driver = "compute_U_values" THEN AngleArrays
                    ELSE {<< >>})
  /\ u_values = << >>

\* a setup that accepts every cone_type
SetupUnchecked ==
  /\ status = "setup"
  /\ status' = "running"
  /\ UNCHANGED <<feed, driver, cone_type, pass_vars, mesh_vars, translate_vars,
                 unwrap_vars>>

\* the check of cone_type before the loop
Setup ==
  /\ status = "setup"
  /\ status' = IF cone_type \in {"outward", "inward"} THEN "running"
               ELSE "ValueError"
  /\ UNCHANGED <<feed, driver, cone_type, pass_vars, mesh_vars, translate_vars,
                 unwrap_vars>>

\* the comments pattern_comment (r'; feature') is found in
FeatureComments ==
  {"; feature outer perimeter", "; feature inner perimeter", "; feature infill"}

\* a region flag that no comment clears
VisibleSticky(r) ==
  visible_print \/ r.txt \in {"; feature outer perimeter", "; feature inner perimeter"}

\* the region flag of the mixed driver after row r
Visible(r) ==
  LET outer == r.txt = "; feature outer perimeter"
      inner == r.txt = "; feature inner perimeter"
      comment == r.txt \in FeatureComments
      v1 == visible_print \/ outer \/ inner
  IN  IF v1 /\ comment /\ ~outer /\ ~inner THEN FALSE ELSE v1

\* a row that is appended as it is and takes the carried angle with it
PassThroughForgetful ==
  /\ status = "running"
  /\ driver \in Drivers
  /\ \E r \in RowsOf(feed) :
       /\ ~Transformed(r)
       /\ row' = r
       /\ entry' = <<r>>
       /\ appended' = 1
       /\ visible_print' = IF driver = "mixed" THEN Visible(r) ELSE visible_print
  /\ move' = NoMove
  /\ angle_old' = 0
  /\ UNCHANGED <<feed, driver, cone_type, status, x_old, y_old, x_new, y_new,
                 z_layer, z_max, update_x, update_y, dep_hi>>
  /\ UNCHANGED <<mesh_vars, translate_vars, unwrap_vars>>

\* a row without 'G0 ' / 'G1 ' at its start, or without X, Y and Z:
\* new_data.append(row)
PassThrough ==
  /\ status = "running"
  /\ driver \in Drivers
  /\ \E r \in RowsOf(feed) :
       /\ ~Transformed(r)
       /\ row' = r
       /\ entry' = <<r>>
       /\ appended' = 1
       /\ visible_print' = IF driver = "mixed" THEN Visible(r) ELSE visible_print
  /\ move' = NoMove
  /\ UNCHANGED <<feed, driver, cone_type, status, x_old, y_old, x_new, y_new,
                 z_layer, angle_old, z_max, update_x, update_y, dep_hi>>
  /\ UNCHANGED <<mesh_vars, translate_vars, unwrap_vars>>

\* the state after the rows of one transformed move are appended
Commit(r, geo, angle_carried, angle_vals, u_vals, rows) ==
  /\ row' = r
  /\ entry' = rows
  /\ appended' = 1
  /\ angle_old' = angle_carried
  /\ z_layer' = geo.z_layer
  /\ z_max' = geo.z_max
  /\ x_new' = geo.x_new
  /\ y_new' = geo.y_new
  /\ x_old' = IF geo.update_x THEN geo.x_new ELSE x_old
  /\ y_old' = IF geo.update_y THEN geo.y_new ELSE y_old
  /\ update_x' = FALSE
  /\ update_y' = FALSE
  /\ move' = MoveRecord(geo, angle_vals, u_vals)
  /\ dep_hi' = NewDepHi(geo)

\* the state when a move raises: the values parsed and computed so far
\* stay in the locals, nothing is appended to new_data
Raise(r, geo, zm, error) ==
  /\ status' = error
  /\ row' = r
  /\ entry' = << >>
  /\ appended' = 0
  /\ z_layer' = geo.z_layer
  /\ z_max' = zm
  /\ x_new' = geo.x_new
  /\ y_new' = geo.y_new
  /\ update_x' = geo.update_x
  /\ update_y' = geo.update_y
  /\ move' = NoMoveFrom(x_old, y_old, z_max)
  /\ UNCHANGED <<x_old, y_old, angle_old, dep_hi>>

\* angle_new of the tangential driver
TangentialAngleNew(geo) ==
  IF geo.update_x \/ geo.update_y
  THEN compute_angle_tangential(geo.x_old_bt, geo.y_old_bt,
                                geo.x_new_bt, geo.y_new_bt, inward_cone)
  ELSE angle_old

\* backtransform_data_tangential, one row with an X, Y or Z field
TangentialMove ==
  /\ status = "running"
  /\ driver = "tangential"
  /\ \E r \in RowsOf(feed) :
       /\ Transformed(r)
       /\ \E geo \in {Geometry(r)} :
          \E angle_new \in {TangentialAngleNew(geo)} :
          \E angle_vals \in {AngleVals(angle_new, geo.num_segm)} :
          \E u_vals \in {compute_U_values(angle_vals)} :
            Commit(r, geo, CarriedAngle(angle_new, u_vals), angle_vals, u_vals,
                   ReplacementRows(BaseRow(r, geo), geo, u_vals, geo.num_segm)
                     \o ResetRows(angle_vals, u_vals))
  /\ UNCHANGED <<feed, driver, cone_type, status, visible_print>>
  /\ UNCHANGED <<mesh_vars, translate_vars, unwrap_vars>>

\* backtransform_data_radial, one row with an X, Y or Z field: the call
\* compute_angle_radial(x_old_bt, y_old_bt, x_new_bt, y_new_bt, inward_cone)
\* passes five arguments to a function of three
RadialMove ==
  /\ status = "running"
  /\ driver = "radial"
  /\ \E r \in RowsOf(feed) :
       /\ Transformed(r)
       /\ \E geo \in {Geometry(r)} : Raise(r, geo, geo.z_max, "TypeError")
  /\ UNCHANGED <<feed, driver, cone_type, visible_print>>
  /\ UNCHANGED <<mesh_vars, translate_vars, unwrap_vars>>

\* backtransform_data_mixed, one row with an X, Y or Z field: z_max is read
\* before it is ever assigned, and where the straight travel line of the
\* inward cone avoids that read, replace_E(row, num_segm, 1) lacks corr_value
MixedMove ==
  /\ status = "running"
  /\ driver = "mixed"
  /\ \E r \in RowsOf(feed) :
       /\ Transformed(r)
       /\ visible_print' = Visible(r)
       /\ \E geo \in {Geometry(r)} :
            Raise(r, geo, z_max,
                  IF inward_cone /\ ~geo.has_e /\ (geo.update_x \/ geo.update_y)
                  THEN "TypeError" ELSE "UnboundLocalError")
  /\ UNCHANGED <<feed, driver, cone_type>>
  /\ UNCHANGED <<mesh_vars, translate_vars, unwrap_vars>>

\* replace_E of Backtransformation_GCode_var_angle.py: the amount is written
\* with five decimals (f'{e_val_new:.5f}')
replace_E_var_angle(r, dist_old, dist_new, cn, cd) ==
  IF ~Has(r.e) THEN r
  ELSE IF dist_old = 0 THEN [r EXCEPT !.e = <<0>>]
  ELSE [r EXCEPT !.e =
          <<10 * MulDivR(MulDivR(r.e[1], cn, cd), dist_new, dist_old * 10)>>]

RECURSIVE ReplacementRowsVarAngle(_, _, _)
\* replacement_rows after sub-segments 1 .. j (variable angle): move lines only
ReplacementRowsVarAngle(base, geo, j) ==
  IF j = 0 THEN << >>
  ELSE ReplacementRowsVarAngle(base, geo, j - 1)
         \o <<replace_E_var_angle(
                SubXYZ(base, geo.x_vals[j + 1], geo.y_vals[j + 1], geo.z_vals[j + 1]),
                geo.dist_sub, geo.distances_bt[j], 1, 1)>>

\* backtransform_data_radial of Backtransformation_GCode_var_angle.py, one
\* 'G1 ' row with an X, Y or Z field
VarAngleMove ==
  /\ status = "running"
  /\ driver = "var_angle"
  /\ \E r \in RowsOf(feed) :
       /\ Transformed(r)
       /\ \E geo \in {Geometry(r)} :
            Commit(r, geo, angle_old, << >>, << >>,
                   ReplacementRowsVarAngle(
                     replace_E_var_angle(insert_Z(r, geo.z_vals[1]),
                                         geo.num_segm, 1, 25782, 26821),
                     geo, geo.num_segm))
  /\ UNCHANGED <<feed, driver, cone_type, status, visible_print>>
  /\ UNCHANGED <<mesh_vars, translate_vars, unwrap_vars>>

(***************************************************************************)
(* Rows with a field that is no number                                     *)
(***************************************************************************)
\* The text of such a field after its letter, as <<0, k>>: '-', '--1', ''
MinusOnly == <<0, 1>>

DoubleMinus == <<0, 2>>

LetterOnly == <<0, 3>>

IsNumber(f) == Len(f) = 1

\* re.search finds the field: r'X[-0-9]+[.]?[0-9]*' needs a sign or a digit
\* after the letter, r'X[-0-9]*[.]?[0-9]*' (variable angle) needs nothing
Matches(f) == Has(f) /\ (f = LetterOnly => IsVar)

\* move rows whose X, Y or Z is such a field
MalformedRows ==
  {Line("G1", "", MinusOnly, None, None, None, None),
   Line("G1", "", DoubleMinus, None, None, <<EAmount>>, None),
   Line("G1", "", LetterOnly, None, None, None, None),
   Line("G1", "", None, MinusOnly, <<ZLow>>, None, None),
   Line("G1", "", <<Coord>>, DoubleMinus, None, <<EAmount>>, None),
   Line("G0", "", None, None, MinusOnly, None, None)}

\* One such row: a row without 'G0 ' / 'G1 ', and one on which no pattern
\* finds X, Y or Z, is appended as it is; otherwise float() of the field
\* raises ValueError, after the fields before it were taken (Z, X, Y)
MalformedRow ==
  /\ status = "running"
  /\ driver \in Drivers
  /\ \E r \in MalformedRows :
       LET zbad == Matches(r.z) /\ ~IsNumber(r.z)
           xbad == Matches(r.x) /\ ~IsNumber(r.x)
           xok  == ~zbad /\ Matches(r.x) /\ IsNumber(r.x)
           yok  == ~zbad /\ ~xbad /\ Matches(r.y) /\ IsNumber(r.y)
       IN  /\ row' = r
           /\ visible_print' = IF driver = "mixed" THEN Visible(r)
                                ELSE visible_print
           /\ IF ~IsMoveRow(r) \/ ~(Matches(r.x) \/ Matches(r.y) \/ Matches(r.z))
              THEN /\ entry' = <<r>>
                   /\ appended' = 1
                   /\ move' = NoMove
                   /\ UNCHANGED <<status, z_layer, x_new, y_new, update_x,
                                  update_y>>
              ELSE /\ status' = "ValueError: could not convert string to float"
                   /\ entry' = << >>
                   /\ appended' = 0
                   /\ move' = NoMoveFrom(x_old, y_old, z_max)
                   /\ z_layer' = IF Matches(r.z) /\ IsNumber(r.z) THEN r.z[1]
                                  ELSE z_layer
                   /\ x_new' = IF xok THEN r.x[1] ELSE x_new
                   /\ update_x' = (xok \/ update_x)
                   /\ y_new' = IF yok THEN r.y[1] ELSE y_new
                   /\ update_y' = (yok \/ update_y)
  /\ UNCHANGED <<feed, driver, cone_type, x_old, y_old, angle_old, z_max, dep_hi>>
  /\ UNCHANGED <<mesh_vars, translate_vars, unwrap_vars>>

(***************************************************************************)
(* The cone transformation of the mesh                                     *)
(***************************************************************************)
\* c of transformation_cone and transformation_kegel
ConeSignMesh == IF cone_type = "outward" THEN 1 ELSE 0 - 1

\* the points of a mesh (1/1000 mm)
MeshGrid == {0 - Coord, 0 - ZLow, 0, ZHigh, Coord}

MeshPoints == {<<x, y, z>> : x \in MeshGrid, y \in MeshGrid, z \in {0, ZLow, ZHigh}}

\* T of transformation_cone: (sqrt(2) x, sqrt(2) y, z + c sqrt(x^2 + y^2))
transformation_cone(p) ==
  <<MulDivR(p[1], 8119, 5741), MulDivR(p[2], 8119, 5741),
    p[3] + ConeSignMesh * Norm2(p[1], p[2])>>

\* f of transformation_kegel, angle 16 degree:
\* (x / cos, y / cos, z + c sqrt(x^2 + y^2) tan)
transformation_kegel(p) ==
  <<MulDivR(p[1], 26821, 25782), MulDivR(p[2], 26821, 25782),
    p[3] + ConeSignMesh * MulDivR(Norm2(p[1], p[2]), 9058, 31589)>>

\* one point of list(map(T, points[:, 0], points[:, 1], points[:, 2]))
TransformPoint ==
  /\ status = "running"
  /\ driver \in Transformations
  /\ \E p \in MeshPoints :
       /\ point' = <<p>>
       /\ point_transformed' =
            <<IF driver = "transformation_cone" THEN transformation_cone(p)
              ELSE transformation_kegel(p)>>
  /\ UNCHANGED <<feed, driver, cone_type, status, pass_vars, translate_vars,
                 unwrap_vars>>

(***************************************************************************)
(* translate_data                                                          *)
(***************************************************************************)
\* z_desired of Backtransformation_GCode.py (1/1000 mm)
z_desired == 300

\* FIRST_LAYER_HEIGHT, the z_desired of the variable-angle file
FIRST_LAYER_HEIGHT == 200

x_shift == 0

y_shift == 0

X_SHIFT == 110000

Y_SHIFT == 90000

\* the arguments of the call; e_parallel and e_perpendicular are 0, so the
\* nozzle correction by u_val adds nothing to X and Y
ZDesired == IF IsVar THEN FIRST_LAYER_HEIGHT ELSE z_desired

TranslateX == IF IsVar THEN X_SHIFT ELSE x_shift

TranslateY == IF IsVar THEN Y_SHIFT ELSE y_shift

\* the first loop, one row: z_min is the lowest Z of a move row with Z and E
ScanRow ==
  /\ status = "running"
  /\ driver \in Translations
  /\ scanned < Len(data)
  /\ scanned' = scanned + 1
  /\ LET r == data[scanned + 1]
     IN  IF IsMoveRow(r) /\ Has(r.z) /\ Has(r.e)
         THEN /\ z_initialized' = TRUE
              /\ z_min' = IF ~z_initialized \/ r.z[1] < z_min[1] THEN r.z
                          ELSE z_min
         ELSE UNCHANGED <<z_initialized, z_min>>
  /\ UNCHANGED <<feed, driver, cone_type, status, pass_vars, mesh_vars, data,
                 z_translate, new_data, unwrap_vars>>

\* z_translate = z_desired - z_min: z_min has no value when no row set it
SetTranslate ==
  /\ status = "running"
  /\ driver \in Translations
  /\ scanned = Len(data)
  /\ z_translate = None
  /\ IF z_initialized
     THEN z_translate' = <<ZDesired - z_min[1]>> /\ status' = status
     ELSE z_translate' = z_translate /\ status' = "UnboundLocalError"
  /\ UNCHANGED <<feed, driver, cone_type, pass_vars, mesh_vars, data, scanned,
                 z_initialized, z_min, new_data, unwrap_vars>>

\* a row of the second loop: a move row has its X, Y and Z replaced
Translated(r) ==
  IF ~IsMoveRow(r) THEN r
  ELSE [r EXCEPT
          !.x = IF Has(r.x) THEN <<r.x[1] + TranslateX>> ELSE r.x,
          !.y = IF Has(r.y) THEN <<r.y[1] + TranslateY>> ELSE r.y,
          !.z = IF Has(r.z) THEN <<Max2(r.z[1] + z_translate[1], ZDesired)>>
                ELSE r.z]

\* the second loop, one row; after the last one new_data is returned
TranslateRow ==
  /\ status = "running"
  /\ driver \in Translations
  /\ z_translate # None
  /\ Len(new_data) < Len(data)
  /\ new_data' = Append(new_data, Translated(data[Len(new_data) + 1]))
  /\ status' = IF Len(new_data) + 1 = Len(data) THEN "returned" ELSE status
  /\ UNCHANGED <<feed, driver, cone_type, pass_vars, mesh_vars, data, scanned,
                 z_initialized, z_min, z_translate, unwrap_vars>>

(***************************************************************************)
(* compute_U_values called alone                                           *)
(***************************************************************************)
Unwrap ==
  /\ status = "running"
  /\ driver = "compute_U_values"
  /\ u_values' = compute_U_values(angle_arg)
  /\ status' = "returned"
  /\ UNCHANGED <<feed, driver, cone_type, pass_vars, mesh_vars, translate_vars,
                 angle_arg>>

Next ==
  \/ Setup
  \/ PassThrough
  \/ TangentialMove
  \/ RadialMove
  \/ MixedMove
  \/ VarAngleMove
  \/ MalformedRow
  \/ TransformPoint
  \/ ScanRow
  \/ SetTranslate
  \/ TranslateRow
  \/ Unwrap

Spec == Init /\ [][Next]_vars

(***************************************************************************)
(* Properties                                                              *)
(***************************************************************************)
\* the last row was a transformed move and its lines were appended
MoveDone == status = "running" /\ move.num_segm > 0

\* ... and the driver gave it rotary values
HasRotary == MoveDone /\ move.u_vals # << >>

IsMoveLine(l) == Has(l.x) \/ Has(l.y) \/ Has(l.z)

IsRetract(l) == l = Line("G1", "", None, None, None, <<0 - 800000>>, None)

IsReextrude(l) == l = Line("G1", "", None, None, None, <<800000>>, None)

IsRotation(l) == l.g = "G1" /\ ~IsMoveLine(l) /\ ~Has(l.e) /\ Has(l.u)

IsReset(l) == l.g = "G92"

\* the move lines, the rotation-only lines and the G92 lines of the entry
MoveLines == SelectSeq(entry, IsMoveLine)

Rotations == SelectSeq(entry, IsRotation)

Resets == SelectSeq(entry, IsReset)

\* the step of the rotary axis over sub-segment j, in 1/100 degree
Step(j) == Abs(move.u_vals[j + 1] - move.u_vals[j])

IsLarge(j) == Step(j) > 3000

\* the sub-segments with a step above 30 degree, in order
LargeSteps == SelectSeq([j \in 1..move.num_segm |-> j], IsLarge)

\* some rotary value of the move is above 3600 degree in magnitude
Exceeds == \E i \in 1..Len(move.u_vals) : Abs(move.u_vals[i]) > 360000

LastOf(s) == s[Len(s)]

\* floor(a * b / c) for a, b >= 0, c > 0
FloorMulDiv(a, b, c) == (a \div c) * b + ((a % c) * b) \div c

\* C1: in every move of a pass, two consecutive rotary values that
\* compute_U_values returns never differ by more than 180 degree.
C1_Continuity ==
  HasRotary => \A j \in 1..move.num_segm : Step(j) <= 18000

\* C2: a sub-segment whose rotary step is above 30 degree has a move line
\* without the new value, and a retract, a rotation-only and a re-extrude line,
\* adjacent and in this order, carry the rotation; a step of at most 30 degree
\* is written on the move line and no such lines are added.
C2_LargeStepsSeparated ==
  HasRotary =>
    /\ Len(MoveLines) = move.num_segm
    /\ \A j \in 1..move.num_segm :
         MoveLines[j].u = IF IsLarge(j) THEN row.u ELSE <<move.u_vals[j + 1]>>
    /\ Len(Rotations) = Len(LargeSteps)
    /\ \A m \in 1..Len(LargeSteps) :
         Rotations[m].u = <<move.u_vals[LargeSteps[m] + 1]>>
    /\ \A i \in 1..Len(entry) :
         /\ IsRotation(entry[i]) =>
              /\ 1 < i /\ i < Len(entry)
              /\ IsRetract(entry[i - 1])
              /\ IsReextrude(entry[i + 1])
         /\ IsRetract(entry[i]) => i < Len(entry) /\ IsRotation(entry[i + 1])
         /\ IsReextrude(entry[i]) => 1 < i /\ IsRotation(entry[i - 1])

\* a move of several sub-segments whose first step is above 30 degree and
\* whose second is not
C2_Witness ==
  /\ HasRotary
  /\ move.num_segm >= 2
  /\ IsLarge(1) /\ ~IsLarge(2)
  /\ Len(Rotations) = 1
  /\ \E i \in 2..(Len(entry) - 1) :
       IsRetract(entry[i - 1]) /\ IsRotation(entry[i]) /\ IsReextrude(entry[i + 1])

\* C3: a move with a rotary value above 3600 degree in magnitude ends with
\* exactly one line G92 U<v>, v the last angle of the move in degree rounded
\* to 2 decimals, and the angle carried on is that raw angle; any other move
\* has no G92 line and carries its last rotary value on.
C3_AxisReset ==
  HasRotary =>
    IF Exceeds
    THEN /\ Len(Resets) = 1
         /\ IsReset(LastOf(entry))
         /\ LastOf(entry) = Line("G92", "", None, None, None, None, LastOf(entry).u)
         /\ Has(LastOf(entry).u)
         /\ Abs(RadOfDeg(LastOf(entry).u[1]) - LastOf(move.angle_vals)) <= 875
         /\ angle_old = LastOf(move.angle_vals)
         /\ Abs(angle_old) <= 2 * Pi
    ELSE /\ Len(Resets) = 0
         /\ DegOfRad(angle_old) = LastOf(move.u_vals)

\* a move that passes 3600 degree and ends with its G92 line
C3_Witness ==
  /\ HasRotary
  /\ Exceeds
  /\ Len(entry) > move.num_segm
  /\ IsReset(LastOf(entry))
  /\ angle_old = LastOf(move.angle_vals)

\* C4: no sub-segment of a travel move (no E) is emitted above z_max + 1.0,
\* z_max as held when the move is processed, for both cone types.
C4_TravelCapped ==
  (MoveDone /\ ~move.has_e) =>
    \A i \in 2..Len(move.z_vals) : move.z_vals[i] <= move.z_max_in + 1000

\* C5: no processed line lowers z_max.
C5_ZMaxMonotone == [][z_max' >= z_max]_vars

\* C6: once a depositing move was processed, z_max is the highest Z of any
\* sub-point of any depositing move so far.
C6_ZMaxIsHighestDeposit ==
  (status = "running" /\ dep_hi # None) => z_max = dep_hi[1]

C8_Scenario ==
  (/\ driver = "radial" /\ cone_type = "outward"
   /\ row = Line("G1", "", <<10000>>, <<0>>, None, <<1000000>>, None)
   /\ move.x_from = 0 /\ move.y_from = 0) =>
    /\ status = "running"
    /\ Len(MoveLines) = 2
    /\ MoveLines[1].x = <<3536>> /\ MoveLines[1].y = <<0>>
    /\ MoveLines[1].z = <<3536>> /\ MoveLines[1].u = <<0>>
    /\ MoveLines[2].x = <<7071>> /\ MoveLines[2].y = <<0>>
    /\ MoveLines[2].z = <<7071>> /\ MoveLines[2].u = <<0>>

C10_PassThrough ==
  (status = "running" /\ row # NoRow) =>
    /\ appended = 1
    /\ (row.g \notin {"G0", "G1"} \/ ~IsMoveLine(row)) => entry = <<row>>

\* the radial driver has appended a G1 row that has no X, Y or Z
C10_Witness ==
  /\ status = "running"
  /\ driver = "radial"
  /\ row.g = "G1" /\ ~IsMoveLine(row) /\ Has(row.e)
  /\ entry = <<row>>
  /\ appended = 1

\* C11: every row a driver has processed left either the row itself or all
\* num_segm move lines of its move in the output, and no row ends the pass
\* before the end of the stream.
C11_NoHalfCommit ==
  driver \in Drivers =>
    /\ status \in {"setup", "running", "ValueError"}
    /\ (status = "running" /\ row # NoRow) =>
         /\ appended = 1
         /\ \/ entry = <<row>>
            \/ move.num_segm > 0 /\ Len(MoveLines) = move.num_segm

\* C12: with a cone_type other than 'outward' and 'inward' a driver or a cone
\* transformation of the mesh ends in ValueError at setup: no row or point is
\* processed, nothing is output and no local has moved; and ValueError at
\* setup has no other cause.
C12_ConfigError ==
  /\ (driver \in Drivers \cup Transformations /\ cone_type \notin {"outward", "inward"}) =>
       /\ status \in {"setup", "ValueError"}
       /\ row = NoRow /\ entry = << >> /\ appended = 0 /\ move = NoMove
       /\ x_old = 0 /\ y_old = 0 /\ x_new = 0 /\ y_new = 0 /\ z_layer = 0
       /\ angle_old = 0 /\ z_max = 0 /\ ~update_x /\ ~update_y
       /\ point = None /\ point_transformed = None
  /\ status = "ValueError" => cone_type \notin {"outward", "inward"}

\* the radial driver has refused the cone type 'sideways'
C12_Witness ==
  /\ driver = "radial"
  /\ cone_type = "sideways"
  /\ status = "ValueError"
  /\ row = NoRow /\ entry = << >>

\* C13: a move row with a malformed X, Y or Z does not end the pass: the row
\* has its entry in the output and the field is in it as it was.
C13_MalformedRecoverable ==
  (driver \in Drivers /\ row \in MalformedRows) =>
    /\ status = "running"
    /\ appended = 1
    /\ \E i \in 1..Len(entry) :
         /\ ~IsNumber(row.x) => entry[i].x = row.x
         /\ ~IsNumber(row.y) => entry[i].y = row.y
         /\ ~IsNumber(row.z) => entry[i].z = row.z

\* lines of the entry that are neither move lines nor G92 lines
Inserted == Len(entry) - Len(MoveLines) - Len(Resets)

\* sub-segments of the move with a step above 30 degree
Large == IF HasRotary THEN Len(LargeSteps) ELSE 0

FlagAfter(flag, r) ==
  IF r.txt \in {"; feature outer perimeter", "; feature inner perimeter"} THEN TRUE
  ELSE IF r.txt \in FeatureComments THEN FALSE
  ELSE flag

\* C15: in the mixed driver visible_print is false before the first row, a
\* row with the outer or inner perimeter marker sets it, a row with another
\* '; feature' marker clears it, any other row leaves it, and the flag is
\* set from a row when that row is processed, before any later row.
C15_RegionFlag ==
  /\ [](status = "setup" => ~visible_print)
  /\ [][(driver = "mixed" /\ status = "running") =>
          visible_print' = FlagAfter(visible_print, row')]_vars

\* the flag, set by an earlier marker, is still set after a row that is no
\* marker
C15_Witness ==
  /\ driver = "mixed"
  /\ status = "running"
  /\ visible_print
  /\ row.txt \notin FeatureComments
  /\ row # NoRow

\* the back-transformation of the point the mesh transformation gave
BackMapped ==
  LET q == point_transformed[1]
      x_bt == Scale(q[1])
      y_bt == Scale(q[2])
  IN  <<x_bt, y_bt, MappedZ(q[3], x_bt, y_bt)>>

\* C16: for each cone type, mapping a point with transformation_cone
\* (transformation_kegel) and back-transforming the result with the same cone
\* type (and angle) gives the point again, to the precision of the model.
C16_Inverse ==
  point # None =>
    /\ Abs(BackMapped[1] - point[1][1]) <= 1
    /\ Abs(BackMapped[2] - point[1][2]) <= 1
    /\ Abs(BackMapped[3] - point[1][3]) <= 2

\* a point off the axis and off the bed, mapped for an inward cone of 16 degree
C16_Witness ==
  /\ driver = "transformation_kegel"
  /\ cone_type = "inward"
  /\ point = <<<<Coord, 0 - ZLow, ZHigh>>>>
  /\ point_transformed # None
  /\ point_transformed[1][3] < ZHigh

\* the move rows of a list that have a Z
WithZ(rows) == {i \in 1..Len(rows) : rows[i].g \in {"G0", "G1"} /\ Has(rows[i].z)}

\* ... and an E as well
WithZE(rows) == {i \in WithZ(rows) : Has(rows[i].e)}

\* C17: translate_data returns for every list; in what it returns every Z of
\* a move line is at least z_desired, the lowest Z of the move lines with Z
\* and E is z_desired, and a row that is no move line is as it was.
C17_TranslatedHeights ==
  driver \in Translations =>
    /\ status \in {"running", "returned"}
    /\ status = "returned" =>
         /\ Len(new_data) = Len(data)
         /\ \A i \in WithZ(new_data) : new_data[i].z[1] >= ZDesired
         /\ \E i \in WithZE(new_data) : new_data[i].z[1] = ZDesired
         /\ \A i \in 1..Len(data) :
              data[i].g \notin {"G0", "G1"} => new_data[i] = data[i]

\* angle_insert of the call
Chosen == AngleInsert(angle_arg, <<angle_arg[1]>>, 2)

\* C18: each value after the first is a candidate raw + 2 pi k, k in -10..10,
\* and no candidate is closer to the value chosen before it; the result is
\* the chosen values in degree, rounded to 2 decimals; [170, -170] degree
\* gives [170, 190].
C18_ClosestCandidate ==
  (driver = "compute_U_values" /\ status = "returned") =>
    /\ Len(u_values) = Len(angle_arg)
    /\ u_values[1] = DegOfRad(angle_arg[1])
    /\ \A i \in 2..Len(angle_arg) :
         /\ \E k \in (0 - 10)..10 : Chosen[i] = Candidate(angle_arg[i], k)
         /\ \A k \in (0 - 10)..10 :
              Abs(Chosen[i] - Chosen[i - 1])
                <= Abs(Candidate(angle_arg[i], k) - Chosen[i - 1])
         /\ u_values[i] = DegOfRad(Chosen[i])
    /\ angle_arg = <<RadOfDeg(17000), RadOfDeg(0 - 17000)>> =>
         u_values = <<17000, 19000>>

\* the call with [170, -170] degree has returned [170, 190]
C18_Witness ==
  /\ driver = "compute_U_values"
  /\ status = "returned"
  /\ angle_arg = <<RadOfDeg(17000), RadOfDeg(0 - 17000)>>
  /\ u_values = <<17000, 19000>>

\* C19: the radial driver gives every sub-segment the angle atan2(y, x) of
\* its mapped end point, plus pi for the inward cone, and raises nothing on
\* a transformed row.
C19_RadialAngle ==
  (driver = "radial" /\ row \in RowsOf(feed) /\ Transformed(row)) =>
    /\ status = "running"
    /\ move.num_segm > 0
    /\ \A k \in 1..move.num_segm :
         move.angle_vals[k + 1] =
           ArcTan2(move.y_vals[k + 1], move.x_vals[k + 1])
             + (IF inward_cone THEN Pi ELSE 0)

\* C20: every raw angle a driver hands to compute_U_values (each element
\* after the carried one) is in (-pi, pi], for both cone types.
C20_RawAngleRange ==
  HasRotary =>
    \A k \in 2..Len(move.angle_vals) :
      0 - Pi < move.angle_vals[k] /\ move.angle_vals[k] <= Pi

\* C21: in the mixed driver a depositing move in a visible region gives all
\* its sub-segments the one angle computed from the whole move, so the rotary
\* axis does not move between them; every other move gets the angle of each
\* sub-segment from that sub-segment.
C21_OneAnglePerStroke ==
  (driver = "mixed" /\ row \in RowsOf(feed) /\ Transformed(row)) =>
    /\ status = "running"
    /\ move.num_segm > 0
    /\ IF Has(row.e) /\ visible_print
       THEN /\ \A k \in 2..Len(move.angle_vals) :
                 move.angle_vals[k] = move.angle_vals[2]
            /\ \A j \in 2..move.num_segm : Step(j) = 0
       ELSE \A k \in 1..move.num_segm :
              move.angle_vals[k + 1] =
                compute_angle_mixed(move.x_vals[k], move.y_vals[k],
                                    move.x_vals[k + 1], move.y_vals[k + 1],
                                    inward_cone, visible_print)

\* c of a cone type, and the factors of the two cones
SignOf(ct) == IF ct = "outward" THEN 0 - 1 ELSE 1

\* v cos(16 degree), v / cos(16 degree), v tan(16 degree), v / sqrt(2)
TimesCos(v) == MulDivR(v, 25782, 26821)

OverCos(v) == MulDivR(v, 26821, 25782)

TimesTan(v) == MulDivR(v, 9058, 31589)

OverSqrt2(v) == MulDivR(v, 5741, 8119)

\* the Z offsets of the sub-points: c sqrt(x^2 + y^2) tan(theta), tan(45) = 1
OffsetsAsStated ==
  \A k \in 1..Len(move.x_vals) :
    move.z_mapped[k] - z_layer =
      SignOf(cone_type) *
        (IF driver = "var_angle"
         THEN TimesTan(Norm2(move.x_vals[k], move.y_vals[k]))
         ELSE Norm2(move.x_vals[k], move.y_vals[k]))

\* C22 (as the code has it): the variable-angle driver multiplies x and y by
\* cos(theta), the fixed one by 1 / sqrt(2) = cos(45 degree); the Z offset of
\* a sub-point is c sqrt(x^2 + y^2) tan(theta), resp. c sqrt(x^2 + y^2), of
\* its mapped x and y.
C22_ScaledByCos ==
  MoveDone =>
    /\ move.x_vals[1] = (IF driver = "var_angle" THEN TimesCos(move.x_from)
                         ELSE OverSqrt2(move.x_from))
    /\ move.y_vals[1] = (IF driver = "var_angle" THEN TimesCos(move.y_from)
                         ELSE OverSqrt2(move.y_from))
    /\ LastOf(move.x_vals) = (IF driver = "var_angle" THEN TimesCos(x_new)
                              ELSE OverSqrt2(x_new))
    /\ LastOf(move.y_vals) = (IF driver = "var_angle" THEN TimesCos(y_new)
                              ELSE OverSqrt2(y_new))
    /\ OffsetsAsStated

\* C22 as stated: the variable-angle driver multiplies x and y by
\* 1 / cos(theta), the fixed one by 1 / sqrt(2), with the same Z offsets.
C22_ScaledByInverseCos ==
  MoveDone =>
    /\ LastOf(move.x_vals) = (IF driver = "var_angle" THEN OverCos(x_new)
                              ELSE OverSqrt2(x_new))
    /\ LastOf(move.y_vals) = (IF driver = "var_angle" THEN OverCos(y_new)
                              ELSE OverSqrt2(y_new))
    /\ OffsetsAsStated

\* the variable-angle driver has mapped a move to X 10: 10 cos(16 degree) is
\* 9.613, and the cone is 2.756 high there
C22_Witness ==
  /\ driver = "var_angle"
  /\ MoveDone
  /\ x_new = Coord /\ y_new = 0
  /\ LastOf(move.x_vals) = 9613
  /\ Abs(LastOf(move.z_mapped) - z_layer) = 2756

RECURSIVE SumOf(_)
SumOf(s) == IF s = << >> THEN 0 ELSE s[1] + SumOf(Tail(s))

\* the extrusion amounts of the move lines of the entry
Amounts == [j \in 1..Len(MoveLines) |-> MoveLines[j].e[1]] \o << >>

\* the mapped length of the move: the sum of distances_bt
MappedLength == SumOf(DistancesBt(move.x_vals, move.y_vals, move.z_vals))

\* the amount of the row times the correction of the cone
Corrected == IF IsVar THEN TimesCos(row.e[1]) ELSE OverSqrt2(row.e[1])

PlanarChord(j) ==
  Norm2(move.x_vals[j + 1] - move.x_vals[j], move.y_vals[j + 1] - move.y_vals[j])

Chord(j) ==
  Norm3(move.x_vals[j + 1] - move.x_vals[j], move.y_vals[j + 1] - move.y_vals[j],
        move.z_vals[j + 1] - move.z_vals[j])

\* maximal_length times the scale factor of the cone
ScaledMaximalLength ==
  IF IsVar THEN TimesCos(maximal_length) ELSE OverSqrt2(maximal_length)

\* a move longer than maximal_length is cut into pieces shorter than it
Divided ==
  /\ move.num_segm >= 2
  /\ move.dist_transformed < move.num_segm * maximal_length

\* C24 (as the code has it): for a move longer than maximal_length, every
\* piece of the original segment is shorter than maximal_length; the chord of
\* a mapped sub-segment in X and Y is at most maximal_length times the scale
\* factor, and its chord in X, Y and Z is at most the length of the piece it
\* comes from (1/1000 mm more for rounding).
C24_ChordBelowPiece ==
  (MoveDone /\ move.dist_transformed > maximal_length) =>
    /\ Divided
    /\ \A j \in 1..move.num_segm :
         /\ PlanarChord(j) <= ScaledMaximalLength + 1
         /\ Chord(j) <= RoundDiv(move.dist_transformed, move.num_segm) + 1
         /\ Chord(j) <= maximal_length

\* C24 as stated: for a move longer than maximal_length, the chord of every
\* mapped sub-segment is at most maximal_length times the scale factor
\* (2/1000 mm more for rounding), and the pieces are shorter than
\* maximal_length.
C24_ChordBelowScaled ==
  (MoveDone /\ move.dist_transformed > maximal_length) =>
    /\ Divided
    /\ \A j \in 1..move.num_segm : Chord(j) <= ScaledMaximalLength + 2

\* a sub-segment that climbs the cone: its chord is longer than
\* maximal_length times the scale factor and shorter than its piece
C24_Witness ==
  /\ MoveDone
  /\ move.dist_transformed > maximal_length
  /\ \E j \in 1..move.num_segm :
       /\ Chord(j) > ScaledMaximalLength + 100
       /\ Chord(j) < RoundDiv(move.dist_transformed, move.num_segm)
       /\ PlanarChord(j) < ScaledMaximalLength

\* C25: after every row, in every driver, the angle carried to the next move
\* is at most 3600 degree in magnitude, and every rotary value in the output
\* is within [-3600 - 180, 3600 + 180] degree.
C25_CarriedAngleBounded ==
  driver \in Drivers =>
    /\ Abs(angle_old) <= RadOfDeg(360000)
    /\ \A i \in 1..Len(entry) :
         Has(entry[i].u) => Abs(entry[i].u[1]) <= 360000 + 18000

\* a move took the axis past 3600 degree: values above 3600 are in the
\* output, followed by the G92 line, and the carried angle is the raw one
C25_Witness ==
  /\ HasRotary
  /\ \E i \in 1..Len(entry) :
       /\ ~IsReset(entry[i]) /\ Has(entry[i].u)
       /\ Abs(entry[i].u[1]) > 360000
  /\ IsReset(LastOf(entry))
  /\ Abs(angle_old) <= 2 * Pi

MachineState ==
  <<x_old, y_old, x_new, y_new, z_layer, angle_old, z_max, update_x, update_y>>

\* C27: a row that is no move row, and a move row without X, Y and Z, leaves
\* the position, the layer height, the carried angle and z_max as they were;
\* the region flag changes with such a row in the mixed driver only.
C27_FrameOfPassThrough ==
  [][(driver \in Drivers /\ status = "running" /\ status' = "running"
        /\ (~IsMoveRow(row') \/ ~IsMoveLine(row')))
       => /\ MachineState' = MachineState
          /\ (driver # "mixed" => visible_print' = visible_print)
          /\ entry' = <<row'>>]_vars

\* a retraction passed through a driver that had moved, turned and deposited
\* before: all of it is still there
C27_Witness ==
  /\ driver = "tangential"
  /\ status = "running"
  /\ row = Retraction
  /\ entry = <<Retraction>>
  /\ x_old # 0 /\ z_layer # 0 /\ angle_old # 0 /\ z_max # 0

\* C28: on a stream without '; feature' marker the mixed driver gives what
\* the radial driver gives: each of the two completes every transformed row
\* with one entry of num_segm move lines, the angle of each sub-segment is
\* atan2 of its mapped end point (plus pi for the inward cone), and the
\* rotation lines of a large step stand before its move line, as the radial
\* driver puts them.
C28_MixedAsRadial ==
  (driver \in {"radial", "mixed"} /\ ~visible_print
     /\ row \in RowsOf(feed) /\ Transformed(row)) =>
    /\ status = "running"
    /\ appended = 1
    /\ move.num_segm > 0
    /\ Len(MoveLines) = move.num_segm
    /\ \A k \in 1..move.num_segm :
         move.angle_vals[k + 1] =
           compute_angle_radial(move.x_vals[k + 1], move.y_vals[k + 1], inward_cone)
    /\ \A i \in 1..Len(entry) :
         IsReextrude(entry[i]) => i < Len(entry) /\ IsMoveLine(entry[i + 1])

\* where in the entry the j-th move line and the m-th rotation line stand
MoveLinePos(j) ==
  CHOOSE i \in 1..Len(entry) :
    IsMoveLine(entry[i]) /\ Len(SelectSeq(SubSeq(entry, 1, i), IsMoveLine)) = j

RotationPos(m) ==
  CHOOSE i \in 1..Len(entry) :
    IsRotation(entry[i]) /\ Len(SelectSeq(SubSeq(entry, 1, i), IsRotation)) = m

\* C29: the retract, rotation and re-extrude lines of a sub-segment whose
\* step is above 30 degree stand before the move line of that sub-segment,
\* in every driver.
C29_RotationFirst ==
  HasRotary =>
    \A m \in 1..Len(LargeSteps) :
      /\ m <= Len(Rotations)
      /\ RotationPos(m) + 1 < MoveLinePos(LargeSteps[m])

\* C30: after every row of a pass, in the fixed drivers and in the
\* variable-angle driver, x_old and y_old are the X and Y commanded last by a
\* G0 or G1 row (0 while none was), both update flags are false, and a move
\* starts at the mapped end point of the move before it.
C30_PositionTracked ==
  /\ [](driver \in Drivers /\ status \in {"setup", "running"} =>
          /\ ~update_x /\ ~update_y
          /\ (row \in RowsOf(feed) /\ row.g \in {"G0", "G1"}) =>
               /\ Has(row.x) => x_old = row.x[1]
               /\ Has(row.y) => y_old = row.y[1]
          /\ MoveDone =>
               /\ move.x_vals[1] = Scale(move.x_from)
               /\ move.y_vals[1] = Scale(move.y_from)
               /\ LastOf(move.x_vals) = Scale(x_old)
               /\ LastOf(move.y_vals) = Scale(y_old))
  /\ [][(driver \in Drivers /\ status' = "running" /\ row' \in RowsOf(feed)) =>
          /\ (row'.g \in {"G0", "G1"} /\ Has(row'.x)) \/ x_old' = x_old
          /\ (row'.g \in {"G0", "G1"} /\ Has(row'.y)) \/ y_old' = y_old
          /\ MoveDone' => move'.x_from = x_old /\ move'.y_from = y_old]_vars

====
